---- MODULE Spec2Model ----
(***************************************************************************)
(* Model of markdown-to-pdf/scripts/validation/extract_pdf_pages.py:       *)
(* the command-line entry point and extract_pages, one action per          *)
(* statement, with the PyMuPDF document, the output directory and the      *)
(* standard output as state.                                               *)
(***************************************************************************)
EXTENDS Integers, Sequences, FiniteSets

VARIABLES
    sys_argv,      \* sys.argv: program name followed by the arguments (tokens)
    page_count,    \* number of pages of the PDF at pdf_path
    pdf_valid,     \* pdf_path names an existing, readable, valid PDF
    writable,      \* the output directory accepts a write
    pc,            \* position of the process
    pdf_path,      \* sys.argv[1]
    output_dir,    \* sys.argv[2]
    page_numbers,  \* the parsed request list
    i,             \* position of the for loop in page_numbers (0 before it)
    page_num,      \* loop variable
    page,          \* page reference: zero-based index into the document
    pix,           \* pixmap rendered from page
    handle,        \* document handle: "none", "open", "closed"
    files,         \* files of the output directory: set of [path, pix]
    stdout,        \* lines printed
    err,           \* unhandled exception, "none" if none
    exit_status,   \* process exit status, -1 while running
    log,           \* library calls and prints made so far, in order
    prev           \* result of the previous successful run, NoRun if none

vars == <<sys_argv, page_count, pdf_valid, writable, pc, pdf_path, output_dir,
          page_numbers, i, page_num, page, pix, handle, files, stdout, err,
          exit_status, log, prev>>

\* ---------------------------------------------------------------- bounds
MaxPages == 2
MaxLen == 3

\* ------------------------------------------------------ program constants
Zoom == 2
UsageStatus == 1
MinArgv == 4

\* ---------------------------------------------------------------- tokens
Digits == <<"0", "1", "2", "3", "4", "5", "6", "7", "8", "9">>
DigitChars == {Digits[k] : k \in 1..Len(Digits)}
DigitVal(c) == (CHOOSE k \in 1..Len(Digits) : Digits[k] = c) - 1

Prog == <<"e", "x", "e">>
PathArg == <<"f">>
DirArg == <<"d">>
DirArg2 == <<"d", "d">>
\* page-number arguments: the numbers 0..MaxPages+1, "-1", "10", and a non-number
PageArgs == {<<Digits[d + 1]>> : d \in 0..(MaxPages + 1)}
            \cup {<<"-", "1">>, <<"1", "0">>, <<"x">>}

SeqsUpTo(S, n) == UNION {[1..k -> S] : k \in 0..n}

NoPage == 0 - 1
NotExited == 0 - 1
NoPix == [page |-> NoPage, zoom |-> <<0, 0>>]
NoRun == [request |-> <<>>, files |-> {}, none |-> TRUE]

Terminal == {"exited", "raised", "returned"}

\* ------------------------------------------------------------ int(n), base 10
IntBody(tok) == IF tok # <<>> /\ Head(tok) \in {"-", "+"} THEN Tail(tok) ELSE tok
IsInt(tok) == /\ IntBody(tok) # <<>>
              /\ \A k \in 1..Len(IntBody(tok)) : IntBody(tok)[k] \in DigitChars

RECURSIVE DecVal(_)
DecVal(s) == IF s = <<>> THEN 0
             ELSE DecVal(SubSeq(s, 1, Len(s) - 1)) * 10 + DigitVal(s[Len(s)])

IntOf(tok) == IF tok # <<>> /\ Head(tok) = "-" THEN 0 - DecVal(IntBody(tok))
              ELSE DecVal(IntBody(tok))

\* ------------------------------------------------------------ __main__
\* len(sys.argv) < 4, sys.argv[0] being the program name
UsageErrorOffByOne(argv) == Len(argv) < MinArgv - 1
UsageError(argv) == Len(argv) < MinArgv

UsageLine == <<"Usage: python extract_pdf_pages.py <pdf-path> <output-dir> <page-numbers...>">>

\* [int(n) for n in sys.argv[3:]]: the whole list is built before
\* extract_pages is called; the first bad token raises ValueError
ParsePageNumbersSkipBad(args) ==
    [ok |-> TRUE,
     value |-> LET RECURSIVE Keep(_)
                   Keep(s) == IF s = <<>> THEN <<>>
                              ELSE IF IsInt(Head(s)) THEN <<IntOf(Head(s))>> \o Keep(Tail(s))
                              ELSE Keep(Tail(s))
               IN Keep(args)]
ParsePageNumbers(args) ==
    IF \A k \in 1..Len(args) : IsInt(args[k])
    THEN [ok |-> TRUE, value |-> [k \in 1..Len(args) |-> IntOf(args[k])]]
    ELSE [ok |-> FALSE, value |-> <<>>]

\* ------------------------------------------------------------ extract_pages
\* page_num - 1: PyMuPDF uses 0-based indexing
PageIndex(n) == n - 1

\* doc[idx] of PyMuPDF: IndexError when idx >= page_count; a negative idx
\* counts backwards from the end (load_page adds page_count until idx >= 0)
LoadPage(count, idx) ==
    IF idx >= count THEN [ok |-> FALSE, page |-> NoPage]
    ELSE [ok |-> TRUE, page |-> idx % count]

\* fitz.Matrix(2, 2)
Matrix == <<Zoom, Zoom>>

\* page.get_pixmap(matrix=mat)
GetPixmap(p, mat) == [page |-> p, zoom |-> mat]

\* Path(output_dir) / f"page-{page_num}-actual.png"
OutputPathZeroBased(dir, n) == <<dir, "page-", n - 1, "-actual.png">>
OutputPath(dir, n) == <<dir, "page-", n, "-actual.png">>

\* pix.save(output_path): creates the file or overwrites it
SavePixmap(fs, path, px) ==
    {f \in fs : f.path # path} \cup {[path |-> path, pix |-> px]}

ExtractedLine(n, path) == <<"Extracted page", n, "to", path>>
DoneLine == <<"Done">>

Event(op, pos) == [op |-> op, pos |-> pos]

\* ------------------------------------------------------------ initial states
ShortArgv == {<<Prog>>, <<Prog, PathArg>>, <<Prog, PathArg, DirArg>>}
FullArgv == {<<Prog, PathArg, DirArg>> \o p : p \in SeqsUpTo(PageArgs, MaxLen) \ {<<>>}}

Init ==
    /\ sys_argv \in ShortArgv \cup FullArgv
    /\ page_count \in 1..MaxPages
    /\ pdf_valid \in BOOLEAN
    /\ writable \in BOOLEAN
    /\ pc = "start"
    /\ pdf_path = <<>>
    /\ output_dir = <<>>
    /\ page_numbers = <<>>
    /\ i = 0
    /\ page_num = 0
    /\ page = NoPage
    /\ pix = NoPix
    /\ handle = "none"
    /\ files = {}
    /\ stdout = <<>>
    /\ err = "none"
    /\ exit_status = NotExited
    /\ log = <<>>
    /\ prev = NoRun

env == <<sys_argv, page_count, pdf_valid, prev>>
locals == <<pdf_path, output_dir, page_numbers, i, page_num, page, pix>>

\* an exception nobody catches: the interpreter prints the traceback and
\* the process ends with status 1
Raise(e) ==
    /\ err' = e
    /\ pc' = "raised"
    /\ exit_status' = 1

\* ------------------------------------------------------------ __main__
\* if len(sys.argv) < 4: print usage; sys.exit(1)
Usage ==
    /\ pc = "start"
    /\ UsageError(sys_argv)
    /\ stdout' = Append(stdout, UsageLine)
    /\ exit_status' = UsageStatus
    /\ pc' = "exited"
    /\ UNCHANGED <<env, locals, writable, handle, files, err, log>>

\* pdf_path = sys.argv[1]; output_dir = sys.argv[2];
\* page_numbers = [int(n) for n in sys.argv[3:]]
ParseArgs ==
    /\ pc = "start"
    /\ ~UsageError(sys_argv)
    /\ pdf_path' = sys_argv[2]
    /\ output_dir' = sys_argv[3]
    /\ log' = Append(log, Event("parse", 0))
    /\ LET r == ParsePageNumbers(SubSeq(sys_argv, 4, Len(sys_argv))) IN
       IF r.ok
       THEN /\ page_numbers' = r.value
            /\ pc' = "open"
            /\ UNCHANGED <<err, exit_status>>
       ELSE /\ Raise("ValueError")
            /\ UNCHANGED page_numbers
    /\ UNCHANGED <<env, writable, i, page_num, page, pix, handle, files, stdout>>

\* ------------------------------------------------------------ extract_pages
\* doc = fitz.open(pdf_path)
Open ==
    /\ pc = "open"
    /\ log' = Append(log, Event("open", 0))
    /\ IF pdf_valid
       THEN /\ handle' = "open"
            /\ pc' = "for"
            /\ UNCHANGED <<err, exit_status>>
       ELSE /\ Raise("FileDataError")
            /\ UNCHANGED handle
    /\ UNCHANGED <<env, locals, writable, files, stdout>>

\* for page_num in page_numbers:
ForNext ==
    /\ pc = "for"
    /\ IF i < Len(page_numbers)
       THEN /\ i' = i + 1
            /\ page_num' = page_numbers[i + 1]
            /\ pc' = "lookup"
       ELSE /\ pc' = "close"
            /\ UNCHANGED <<i, page_num>>
    /\ UNCHANGED <<env, writable, pdf_path, output_dir, page_numbers, page, pix,
                   handle, files, stdout, err, exit_status, log>>

\* page = doc[page_num - 1]
Lookup ==
    /\ pc = "lookup"
    /\ log' = Append(log, Event("lookup", i))
    /\ LET r == LoadPage(page_count, PageIndex(page_num)) IN
       IF r.ok
       THEN /\ page' = r.page
            /\ pc' = "render"
            /\ UNCHANGED <<err, exit_status>>
       ELSE /\ Raise("IndexError")
            /\ UNCHANGED page
    /\ UNCHANGED <<env, writable, pdf_path, output_dir, page_numbers, i, page_num,
                   pix, handle, files, stdout>>

\* mat = fitz.Matrix(2, 2); pix = page.get_pixmap(matrix=mat)
Render ==
    /\ pc = "render"
    /\ log' = Append(log, Event("render", i))
    /\ pix' = GetPixmap(page, Matrix)
    /\ pc' = "save"
    /\ UNCHANGED <<env, writable, pdf_path, output_dir, page_numbers, i, page_num,
                   page, handle, files, stdout, err, exit_status>>

\* output_path = Path(output_dir) / f"page-{page_num}-actual.png"
output_path_by_position == OutputPath(output_dir, i)
output_path == OutputPath(output_dir, page_num)

\* pix.save raises: the exception leaves extract_pages, nothing is undone
SaveFailedCleanup ==
    /\ Raise("IOError")
    /\ files' = {}
    /\ UNCHANGED stdout
SaveFailedSwallowed ==
    /\ pc' = "print"
    /\ UNCHANGED <<files, stdout, err, exit_status>>
SaveFailed ==
    /\ Raise("IOError")
    /\ UNCHANGED <<files, stdout>>

\* pix.save(output_path); the directory may stop accepting writes at any save
Save ==
    /\ pc = "save"
    /\ \E w \in {writable, FALSE} :
        /\ writable' = w
        /\ IF w
           THEN /\ files' = SavePixmap(files, output_path, pix)
                /\ log' = Append(log, Event("save", i))
                /\ pc' = "print"
                /\ UNCHANGED <<stdout, err, exit_status>>
           ELSE /\ log' = Append(log, Event("save_failed", i))
                /\ SaveFailed
    /\ UNCHANGED <<env, locals, handle>>

\* print(f"Extracted page {page_num} to {output_path}")
PrintExtractedOnce ==
    /\ pc = "print"
    /\ stdout' = IF \E k \in 1..Len(stdout) : stdout[k] = ExtractedLine(page_num, output_path)
                 THEN stdout
                 ELSE Append(stdout, ExtractedLine(page_num, output_path))
    /\ log' = Append(log, Event("print", i))
    /\ pc' = "for"
    /\ UNCHANGED <<env, locals, writable, handle, files, err, exit_status>>
PrintExtracted ==
    /\ pc = "print"
    /\ stdout' = Append(stdout, ExtractedLine(page_num, output_path))
    /\ log' = Append(log, Event("print", i))
    /\ pc' = "for"
    /\ UNCHANGED <<env, locals, writable, handle, files, err, exit_status>>

\* doc.close()
CloseSkipped ==
    /\ pc = "close"
    /\ pc' = "print_done"
    /\ UNCHANGED <<env, locals, writable, handle, files, stdout, err, exit_status, log>>
Close ==
    /\ pc = "close"
    /\ handle' = "closed"
    /\ log' = Append(log, Event("close", 0))
    /\ pc' = "print_done"
    /\ UNCHANGED <<env, locals, writable, files, stdout, err, exit_status>>

\* print("Done"); extract_pages returns and the script ends with status 0
PrintDone ==
    /\ pc = "print_done"
    /\ stdout' = Append(stdout, DoneLine)
    /\ log' = Append(log, Event("done", 0))
    /\ exit_status' = 0
    /\ pc' = "returned"
    /\ UNCHANGED <<env, locals, writable, handle, files, err>>

\* ------------------------------------------------------------ a second run
Bijections(n) == {f \in [1..n -> 1..n] : \A a, b \in 1..n : f[a] = f[b] => a = b}
Permutations(s) == {[k \in 1..Len(s) |-> s[f[k]]] : f \in Bijections(Len(s))}

\* the script is run again on the same document with the page arguments
\* reordered and a new, empty output directory
Rerun ==
    /\ pc = "returned"
    /\ prev.none
    /\ prev' = [request |-> page_numbers, files |-> files, none |-> FALSE]
    /\ \E q \in Permutations(SubSeq(sys_argv, 4, Len(sys_argv))) :
        sys_argv' = <<Prog, PathArg, DirArg2>> \o q
    /\ writable' = TRUE
    /\ pc' = "start"
    /\ pdf_path' = <<>>
    /\ output_dir' = <<>>
    /\ page_numbers' = <<>>
    /\ i' = 0
    /\ page_num' = 0
    /\ page' = NoPage
    /\ pix' = NoPix
    /\ handle' = "none"
    /\ files' = {}
    /\ stdout' = <<>>
    /\ err' = "none"
    /\ exit_status' = NotExited
    /\ log' = <<>>
    /\ UNCHANGED <<page_count, pdf_valid>>

Next ==
    \/ Usage
    \/ ParseArgs
    \/ Open
    \/ ForNext
    \/ Lookup
    \/ Render
    \/ Save
    \/ PrintExtracted
    \/ Close
    \/ PrintDone
    \/ Rerun

Spec == Init /\ [][Next]_vars

\* ------------------------------------------------------------ properties
Requested == {page_numbers[k] : k \in DOMAIN page_numbers}
AllInRange == /\ page_numbers # <<>>
              /\ \A k \in DOMAIN page_numbers : page_numbers[k] \in 1..page_count
HasDuplicate == Cardinality(Requested) < Len(page_numbers)

ExpectedPath(n) == <<sys_argv[3], "page-", n, "-actual.png">>
ExpectedLine(n) == <<"Extracted page", n, "to", ExpectedPath(n)>>
NameOf(f) == <<f.path[2], f.path[3], f.path[4]>>
Paths == {f.path : f \in files}

Count(op) == Cardinality({k \in DOMAIN log : log[k].op = op})
ProgressLines == {k \in DOMAIN stdout : stdout[k][1] = "Extracted page"}
Occurrences(s, v) == Cardinality({k \in DOMAIN s : s[k] = v})
IsPermutation(a, b) ==
    /\ Len(a) = Len(b)
    /\ \A k \in DOMAIN a : Occurrences(a, a[k]) = Occurrences(b, a[k])

\* C1: for a valid document, a writable directory and a request list with
\* every page number in 1..page_count, the run ends successfully and the
\* files created are exactly page-N-actual.png for the requested N, one per
\* distinct N.
C1_ExactOutputFiles ==
    (pc \in Terminal /\ pdf_valid /\ writable /\ AllInRange) =>
        /\ pc = "returned"
        /\ exit_status = 0
        /\ Paths = {ExpectedPath(n) : n \in Requested}
        /\ Cardinality(files) = Cardinality(Requested)
C1_Witness ==
    /\ pc = "returned"
    /\ AllInRange
    /\ HasDuplicate
    /\ Cardinality(Requested) >= 2

\* C2: a request list containing a page number N that is 0 or greater than
\* page_count makes the run end in an error, and page-N-actual.png is never
\* written.
C2_OutOfRangeFails ==
    \A k \in DOMAIN page_numbers :
        (page_numbers[k] = 0 \/ page_numbers[k] > page_count) =>
            /\ pc \in Terminal => pc = "raised"
            /\ ExpectedPath(page_numbers[k]) \notin Paths

\* C3: in every terminal state of a run the document handle is not left open.
C3_HandleReleased == pc \in Terminal => handle # "open"

\* C4: a successful run opens the document once and closes it once; every
\* page lookup, render and save happens after the open and before the close,
\* and the close happens before "Done" is printed.
C4_OpenCloseOnce ==
    /\ pc = "returned" =>
        /\ Count("open") = 1
        /\ Count("close") = 1
        /\ handle = "closed"
    /\ pc \in {"lookup", "render", "save"} => handle = "open"
    /\ \A k \in DOMAIN log :
        /\ log[k].op \in {"lookup", "render", "save", "save_failed"} =>
            /\ \E a \in 1..(k - 1) : log[a].op = "open"
            /\ \A c \in 1..(k - 1) : log[c].op # "close"
        /\ log[k].op = "done" => \E c \in 1..(k - 1) : log[c].op = "close"
C4_Witness ==
    /\ pc = "returned"
    /\ Len(page_numbers) >= 2

\* C5: with fewer than 3 arguments after the program name the script prints
\* the usage message and exits with status 1; no document is opened, no page
\* number is parsed and no file is written.
C5_UsageExit ==
    (Len(sys_argv) - 1 < 3) =>
        /\ handle = "none"
        /\ files = {}
        /\ log = <<>>
        /\ page_numbers = <<>>
        /\ pc \in {"start", "exited"}
        /\ pc = "start" => stdout = <<>>
        /\ pc = "exited" => exit_status = 1 /\ stdout = <<UsageLine>>
C5_Witness ==
    /\ pc = "exited"
    /\ Len(sys_argv) = 3

\* C6: two successful runs whose request lists are permutations of each
\* other, all page numbers in 1..page_count, leave the same files by name and
\* content, and page-N-actual.png holds the rendering of page index N-1.
C6_OrderIndependent ==
    (pc = "returned" /\ ~prev.none /\ AllInRange
        /\ IsPermutation(prev.request, page_numbers)) =>
        /\ {<<NameOf(f), f.pix>> : f \in files} = {<<NameOf(f), f.pix>> : f \in prev.files}
        /\ \A f \in files \cup prev.files :
            \E n \in Requested :
                /\ NameOf(f) = <<"page-", n, "-actual.png">>
                /\ f.pix.page = n - 1
C6_Witness ==
    /\ pc = "returned"
    /\ ~prev.none
    /\ AllInRange
    /\ page_numbers # prev.request
    /\ Cardinality(Requested) >= 2

\* C7: a successful run prints one "Extracted page N" line per entry of the
\* request list, in the order of the list, then one "Done" line; a run that
\* fails never prints "Done".
C7_Stdout ==
    /\ pc = "returned" =>
        stdout = [k \in 1..Len(page_numbers) |-> ExpectedLine(page_numbers[k])] \o <<DoneLine>>
    /\ pc \in {"raised", "exited"} =>
        \A k \in DOMAIN stdout : stdout[k] # DoneLine
C7_Witness ==
    /\ pc = "returned"
    /\ HasDuplicate

\* C8: when the entry at position i fails, the run stops there: the files and
\* progress lines of the entries before i are present, the failing call is
\* the last one made, no later entry was touched, and every file saved
\* earlier in the run is still there.
C8_AbortNoCleanup ==
    /\ (pc = "raised" /\ err \in {"IndexError", "IOError"}) =>
        /\ i >= 1
        /\ \A j \in 1..(i - 1) : ExpectedPath(page_numbers[j]) \in Paths
        /\ stdout = [j \in 1..(i - 1) |-> ExpectedLine(page_numbers[j])]
        /\ \A k \in DOMAIN log : log[k].pos <= i
        /\ log[Len(log)].pos = i
        /\ log[Len(log)].op = (IF err = "IndexError" THEN "lookup" ELSE "save_failed")
    /\ \A k \in DOMAIN log :
        log[k].op = "save" => ExpectedPath(page_numbers[log[k].pos]) \in Paths
C8_Witness ==
    /\ pc = "raised"
    /\ err = "IOError"
    /\ i >= 2

\* C9: if any page-number argument is not a base-10 integer the run ends in
\* a parse error; the document is never opened and no file is written, even
\* when valid page numbers precede the bad argument.
C9_ParseBeforeOpen ==
    (\E k \in 4..Len(sys_argv) : ~IsInt(sys_argv[k])) =>
        /\ handle = "none"
        /\ files = {}
        /\ \A k \in DOMAIN log : log[k].op # "open"
        /\ pc \in Terminal => pc = "raised" /\ err = "ValueError"
C9_Witness ==
    /\ pc = "raised"
    /\ err = "ValueError"
    /\ Len(sys_argv) >= 5
    /\ IsInt(sys_argv[4])
    /\ IntOf(sys_argv[4]) \in 1..page_count

\* C10: every "Extracted page N" line printed so far has its file
\* page-N-actual.png written; progress lines never outnumber completed saves,
\* and a failed save is followed by no progress line.
C10_ProgressAfterSave ==
    /\ \A k \in ProgressLines : stdout[k][4] \in Paths
    /\ \A k \in ProgressLines : stdout[k][4] = ExpectedPath(stdout[k][2])
    /\ Cardinality(ProgressLines) <= Count("save")
    /\ \A k \in DOMAIN log :
        log[k].op = "save_failed" => \A m \in (k + 1)..Len(log) : log[m].op # "print"
C10_Witness ==
    /\ pc = "raised"
    /\ err = "IOError"
    /\ Len(stdout) >= 1

====
